---- MODULE Spec2Model ----
(***************************************************************************)
(* train_min.py: a command-line wrapper that validates a pair of audio     *)
(* files, runs an external trainer as a child process, runs an external    *)
(* converter as a second child process and copies two files into an output *)
(* directory.                                                              *)
(*                                                                         *)
(* The interpreter is run as the shebang runs it (python3, assertions      *)
(* enabled).  Both audio files are taken to load; an audio file is its     *)
(* number of samples and its sample rate, which is all prepare_data reads. *)
(* Paths are sequences of components, os.path.join appends components.     *)
(* Python floats are IEEE-754 binary64: a float is a sign s, an exponent e *)
(* and a significand m of Precision bits (most significant first, m[1] = 1,*)
(* value m * 2^(e - (Precision - 1))); zero is the empty significand.      *)
(***************************************************************************)
EXTENDS Integers, Sequences, FiniteSets, TLC

VARIABLES
    i_len, i_sr,      \* input.wav: samples, sample rate
    t_len, t_sr,      \* output.wav: samples, sample rate
    model_type,       \* --model-type
    skip,             \* --skip-connection
    epochs,           \* --epochs
    environ,          \* os.environ of the wrapper process
    files,            \* regular files: set of <<path, data>>
    dirs,             \* directories: set of paths
    initial,          \* environ, files and dirs as they were at start-up
    pc,               \* where the wrapper is
    raised,           \* the exception that ended the process, or NoExc
    helper,           \* what the optional colab_functions helper did, or NotCalled
    stderr,           \* lines written to the error stream
    stdout,           \* lines written to the output stream
    fn,               \* main: fn, the value prepare_data returned
    cfg, sc,          \* train: locals
    model_dir,        \* main: model_dir, the value train returned
    best,             \* export_aidax: best
    children,         \* child processes started, in order: [cmd, cwd, env]
    exits             \* exit status of the children that exited, in order

vars == <<i_len, i_sr, t_len, t_sr, model_type, skip, epochs, environ, files,
          dirs, initial, pc, raised, helper, stderr, stdout, fn, cfg, sc,
          model_dir, best, children, exits>>

(***************************************************************************)
(* Bounds of the audio inputs.                                             *)
(***************************************************************************)
MaxLen == 16
MaxRate == 3

(***************************************************************************)
(* Sequences of bits.                                                      *)
(***************************************************************************)
Front(s) == SubSeq(s, 1, Len(s) - 1)
Last(s) == s[Len(s)]

Zeros(k) == [i \in 1..k |-> 0]

RECURSIVE Pow2(_)
Pow2(k) == IF k = 0 THEN 1 ELSE 2 * Pow2(k - 1)

\* 2^k modulo m, by repeated squaring
RECURSIVE Pow2Mod(_, _)
Pow2Mod(k, m) ==
    IF k = 0 THEN 1 % m
    ELSE LET h == Pow2Mod(k \div 2, m)
         IN  (h * h * (IF k % 2 = 1 THEN 2 ELSE 1)) % m

\* bits + 1, for bits not all ones: the lowest 0 becomes 1, the ones below it 0
Inc(bits) ==
    LET j == CHOOSE i \in 1..Len(bits) :
                 bits[i] = 0 /\ \A k \in (i + 1)..Len(bits) : bits[k] = 1
    IN  [i \in 1..Len(bits) |-> IF i < j THEN bits[i] ELSE IF i = j THEN 1 ELSE 0]

\* a < b, for bit sequences of one length
LtBits(a, b) ==
    \E i \in 1..Len(a) : a[i] < b[i] /\ \A k \in 1..(i - 1) : a[k] = b[k]

\* a - b, for bit sequences of one length with a >= b: bit i borrows when
\* the bits of a below it are less than those of b
SubBits(a, b) ==
    [i \in 1..Len(a) |->
        LET borrow == IF \E j \in (i + 1)..Len(a) :
                             a[j] < b[j] /\ \A k \in (i + 1)..(j - 1) : a[k] = b[k]
                      THEN 1 ELSE 0
        IN  (a[i] - b[i] - borrow + 2) % 2]

\* bits without its leading zeros
Strip(bits) ==
    IF \A i \in 1..Len(bits) : bits[i] = 0 THEN <<>>
    ELSE LET j == CHOOSE i \in 1..Len(bits) :
                      bits[i] = 1 /\ \A k \in 1..(i - 1) : bits[k] = 0
         IN  SubSeq(bits, j, Len(bits))

(***************************************************************************)
(* Python float arithmetic (binary64, round to nearest, ties to even).     *)
(***************************************************************************)
Precision == 53

FZero == [s |-> 0, e |-> 0, m |-> <<>>]

\* The float nearest to the number whose binary digits are bits (bits[1] = 1,
\* of weight 2^e), with sign s.
RoundBits(s, bits, e) ==
    IF Len(bits) <= Precision
    THEN [s |-> s, e |-> e, m |-> bits \o Zeros(Precision - Len(bits))]
    ELSE LET keep   == SubSeq(bits, 1, Precision)
             guard  == bits[Precision + 1]
             sticky == \E i \in (Precision + 2)..Len(bits) : bits[i] = 1
             up     == guard = 1 /\ (sticky \/ keep[Precision] = 1)
         IN  IF ~up THEN [s |-> s, e |-> e, m |-> keep]
             ELSE IF \A i \in 1..Precision : keep[i] = 1
                  THEN [s |-> s, e |-> e + 1, m |-> <<1>> \o Zeros(Precision - 1)]
                  ELSE [s |-> s, e |-> e, m |-> Inc(keep)]

\* largest e with d * 2^e <= n, for n >= d
RECURSIVE ExpPos(_, _)
ExpPos(n, d) == IF n >= 2 * d THEN 1 + ExpPos(n, 2 * d) ELSE 0

\* smallest k with n * 2^k >= d
RECURSIVE ExpNeg(_, _)
ExpNeg(n, d) == IF n >= d THEN 0 ELSE 1 + ExpNeg(2 * n, d)

\* what is left of r after k binary digits of r / den, for r < den
QuotRem(r, den, k) == (r * Pow2Mod(k, den)) % den

\* the first k binary digits of r / den after the point, for r < den
QuotBits(r, den, k) ==
    [i \in 1..k |-> IF 2 * QuotRem(r, den, i - 1) >= den THEN 1 ELSE 0]

\* n / d of two ints, n >= 0 and d > 0: the correctly rounded quotient
TrueDiv(n, d) ==
    IF n = 0 THEN FZero
    ELSE LET e   == IF n >= d THEN ExpPos(n, d) ELSE 0 - ExpNeg(n, d)
             num == IF e >= 0 THEN n ELSE n * Pow2(0 - e)
             den == IF e >= 0 THEN d * Pow2(e) ELSE d
             rem == QuotRem(num - den, den, Precision)
         IN  RoundBits(0, <<1>> \o QuotBits(num - den, den, Precision)
                             \o <<IF rem # 0 THEN 1 ELSE 0>>, e)

FNeg(x) == IF x.m = <<>> THEN x ELSE [x EXCEPT !.s = 1 - x.s]

\* x - y of two floats >= 0: the exact difference, rounded
FSub(x, y) ==
    IF y.m = <<>> THEN x
    ELSE IF x.m = <<>> THEN FNeg(y)
    ELSE LET emin == IF x.e < y.e THEN x.e ELSE y.e
             emax == IF x.e < y.e THEN y.e ELSE x.e
             X    == Zeros(emax - x.e) \o x.m \o Zeros(x.e - emin)
             Y    == Zeros(emax - y.e) \o y.m \o Zeros(y.e - emin)
             neg  == LtBits(X, Y)
             D    == Strip(IF neg THEN SubBits(Y, X) ELSE SubBits(X, Y))
         IN  IF D = <<>> THEN FZero
             ELSE RoundBits(IF neg THEN 1 ELSE 0, D,
                            emin - (Precision - 1) + (Len(D) - 1))

FAbs(x) == [x EXCEPT !.s = 0]

\* x < y of two floats >= 0
FLess(x, y) ==
    IF y.m = <<>> THEN FALSE
    ELSE IF x.m = <<>> THEN TRUE
    ELSE IF x.e # y.e THEN x.e < y.e
    ELSE LtBits(x.m, y.m)

(***************************************************************************)
(* The file system and the environment.                                    *)
(***************************************************************************)
Join(dir, name) == dir \o <<name>>

Exists(fs, path) == \E f \in fs : f[1] = path

Read(fs, path) == (CHOOSE f \in fs : f[1] = path)[2]

\* the file at path holds data afterwards, whatever was there
WriteFile(fs, path, data) == {f \in fs : f[1] # path} \cup {<<path, data>>}

\* the names of the regular files directly in dir
ListDir(fs, dir) == {Last(f[1]) : f \in {g \in fs : Front(g[1]) = dir}}

\* the files directly in dir, with their data
DirFiles(fs, dir) == {f \in fs : Front(f[1]) = dir}

Unset == "<unset>"

EnvVars == {"TF_CPP_MIN_LOG_LEVEL", "CUBLAS_WORKSPACE_CONFIG", "PATH"}

(***************************************************************************)
(* Command-line arguments.                                                 *)
(***************************************************************************)
trainer_dir == <<"trainer">>
out_dir == <<"res">>

ModelTypes == {"Lightest", "Light", "Standard", "Heavy"}
DefaultModelType == "Standard"
EpochChoices == {3, 200}
DefaultEpochs == 200

(***************************************************************************)
(* str(int), for the ints the command line carries.                        *)
(***************************************************************************)
DigitStr(d) ==
    CASE d = 0 -> "0" [] d = 1 -> "1" [] d = 2 -> "2" [] d = 3 -> "3"
      [] d = 4 -> "4" [] d = 5 -> "5" [] d = 6 -> "6" [] d = 7 -> "7"
      [] d = 8 -> "8" [] d = 9 -> "9"

RECURSIVE NatStr(_)
NatStr(n) == IF n < 10 THEN DigitStr(n) ELSE NatStr(n \div 10) \o DigitStr(n % 10)

Str(n) == IF n < 0 THEN "-" \o NatStr(0 - n) ELSE NatStr(n)

(***************************************************************************)
(* prepare_data                                                            *)
(***************************************************************************)
MaxLengthDiff == TrueDiv(3, 1)

\* abs(len(t_aud)/t_sr - len(i_aud)/i_sr) < 3.0
LengthsOk(il, isr, tl, tsr) ==
    FLess(FAbs(FSub(TrueDiv(tl, tsr), TrueDiv(il, isr))), MaxLengthDiff)

\* i_sr == t_sr
RatesOkAlways(isr, tsr) == TRUE
RatesOk(isr, tsr) == isr = tsr

\* An exception: its type (with the message, for the assertions), the text
\* of str(e), and the exit status it carries when it is a SystemExit.
Exc(type) == [type |-> type, text |-> "", code |-> 1]

NoExc == [type |-> "none", text |-> "", code |-> 0]

\* What the import and the two helper calls can do: return, or raise.
\* ImportError (the module is missing) and RuntimeError (raised by
\* create_csv_nam_v1_1_1 or by prep_audio) are Exception subclasses;
\* SystemExit (the helper calls sys.exit(), sys.exit(2) or sys.exit("helper
\* gave up")) derives from BaseException only.
HelperOutcomes ==
    { [type |-> "ok", text |-> "", code |-> 0],
      [type |-> "ImportError", text |-> "No module named 'colab_functions'", code |-> 1],
      [type |-> "RuntimeError", text |-> "csv failed", code |-> 1],
      [type |-> "RuntimeError", text |-> "prep failed", code |-> 1],
      [type |-> "SystemExit", text |-> "", code |-> 0],
      [type |-> "SystemExit", text |-> "", code |-> 2],
      [type |-> "SystemExit", text |-> "helper gave up", code |-> 1] }

NotCalled == [type |-> "not_called", text |-> "", code |-> 0]

\* except Exception
CatchesImportOnly(type) == type \in {"ImportError"}
Catches(type) == type \in {"ImportError", "RuntimeError"}

\* f"[warn] prep helpers missing/failed ({e}); continuing with raw wavs."
WarnLine(text) ==
    "[warn] prep helpers missing/failed (" \o text \o "); continuing with raw wavs."

\* An exception nothing catches ends the process: a SystemExit silently, or
\* with its text on the error stream; any other with a traceback.
Abort(exc) ==
    /\ pc' = "aborted"
    /\ raised' = exc
    /\ stderr' = IF exc.type = "SystemExit"
                 THEN IF exc.text = "" THEN stderr ELSE Append(stderr, exc.text)
                 ELSE Append(stderr, "Traceback")

\* main up to the return of prepare_data: the device line, then prepare_data
PrepareData ==
    /\ pc = "start"
    /\ \E device \in {"cuda", "cpu"} :
          stdout' = Append(stdout, "Using device: " \o device)
    /\ IF ~LengthsOk(i_len, i_sr, t_len, t_sr)
       THEN /\ Abort(Exc("AssertionError: Input/Target lengths differ too much"))
            /\ UNCHANGED <<helper, fn>>
       ELSE IF ~RatesOk(i_sr, t_sr)
       THEN /\ Abort(Exc("AssertionError: Sample rates differ"))
            /\ UNCHANGED <<helper, fn>>
       ELSE \E h \in HelperOutcomes :
            /\ helper' = h
            /\ IF h.type = "ok"
               THEN /\ fn' = "amp"
                    /\ pc' = "prepared"
                    /\ UNCHANGED <<raised, stderr>>
               ELSE IF Catches(h.type)
               THEN /\ stderr' = Append(stderr, WarnLine(h.text))
                    /\ fn' = "amp"
                    /\ pc' = "prepared"
                    /\ UNCHANGED raised
               ELSE /\ Abort(h)
                    /\ UNCHANGED fn
    /\ UNCHANGED <<i_len, i_sr, t_len, t_sr, model_type, skip, epochs, environ,
                   files, dirs, initial, cfg, sc, model_dir, best,
                   children, exits>>

(***************************************************************************)
(* train                                                                   *)
(***************************************************************************)
CfgAllStandard(mt) == "LSTM-16"
Cfg(mt) ==
    CASE mt = "Lightest" -> "LSTM-8"
      [] mt = "Light"    -> "LSTM-12"
      [] mt = "Standard" -> "LSTM-16"
      [] mt = "Heavy"    -> "LSTM-20"

\* sc = 1 if skip else 0
Sc(sk) == IF sk THEN 1 ELSE 0

\* env = os.environ.copy(), then the two assignments; os.environ is the
\* wrapper's own environment afterwards
BuildEnvAliased(env) ==
    LET e == [env EXCEPT !["TF_CPP_MIN_LOG_LEVEL"] = "3",
                         !["CUBLAS_WORKSPACE_CONFIG"] = ":4096:2"]
    IN  [environ |-> e, env |-> e]
BuildEnv(env) ==
    [environ |-> env,
     env |-> [env EXCEPT !["TF_CPP_MIN_LOG_LEVEL"] = "3",
                         !["CUBLAS_WORKSPACE_CONFIG"] = ":4096:2"]]

TrainCmd(c, file_name, s, eps) ==
    <<"python3", "dist_model_recnet.py", "-l", c, "-fn", file_name,
      "-sc", Str(s), "-eps", Str(eps)>>

\* os.path.join(trainer_dir, "Results", f"{file_name}_{cfg}-{sc}")
ModelDir(tdir, file_name, c, s) ==
    tdir \o <<"Results", file_name \o "_" \o c \o "-" \o Str(s)>>

\* subprocess.check_call returns when the child exited 0 and raises otherwise
CheckCallAsCall(code) == TRUE
CheckCall(code) == code = 0

\* Where the external trainer leaves its results, from its own arguments.
TrainerResultDir(child) ==
    child.cwd \o <<"Results", child.cmd[6] \o "_" \o child.cmd[4] \o "-" \o child.cmd[8]>>

TrainSpawn ==
    /\ pc = "prepared"
    /\ cfg' = Cfg(model_type)
    /\ sc' = Sc(skip)
    /\ LET e == BuildEnv(environ)
       IN  /\ environ' = e.environ
           /\ children' = Append(children,
                  [cmd |-> TrainCmd(cfg', fn, sc', epochs),
                   cwd |-> trainer_dir,
                   env |-> e.env])
    /\ stdout' = Append(stdout, ">>")
    /\ pc' = "training"
    /\ UNCHANGED <<i_len, i_sr, t_len, t_sr, model_type, skip, epochs, files,
                   dirs, initial, raised, helper, stderr, fn, model_dir, best,
                   exits>>

\* The trainer child runs and exits; check_call returns or raises.
TrainerExit ==
    /\ pc = "training"
    /\ \E code \in {0, 1}, wrote \in BOOLEAN :
        /\ exits' = Append(exits, code)
        /\ files' = IF wrote
                    THEN WriteFile(files,
                             Join(TrainerResultDir(children[1]), "model_best.json"),
                             "best_new")
                    ELSE files
        /\ IF CheckCall(code)
           THEN /\ model_dir' = ModelDir(trainer_dir, fn, cfg, sc)
                /\ pc' = "trained"
                /\ UNCHANGED <<raised, stderr>>
           ELSE /\ Abort(Exc("CalledProcessError"))
                /\ UNCHANGED model_dir
    /\ UNCHANGED <<i_len, i_sr, t_len, t_sr, model_type, skip, epochs, environ,
                   dirs, initial, helper, stdout, fn, cfg, sc, best, children>>

(***************************************************************************)
(* export_aidax                                                            *)
(***************************************************************************)
\* the converter child is started without env=: it inherits os.environ
ExportSpawn ==
    /\ pc = "trained"
    /\ best' = Join(model_dir, "model_best.json")
    /\ children' = Append(children,
           [cmd |-> <<"python3", "modelToKeras.py", "-lm", best'>>,
            cwd |-> trainer_dir,
            env |-> environ])
    /\ pc' = "converting"
    /\ UNCHANGED <<i_len, i_sr, t_len, t_sr, model_type, skip, epochs, environ,
                   files, dirs, initial, raised, helper, stderr, stdout, fn,
                   cfg, sc, model_dir, exits>>

\* The converter child runs and exits; check_call returns or raises.
ConverterExit ==
    /\ pc = "converting"
    /\ \E code \in {0, 1}, wrote \in BOOLEAN :
        /\ exits' = Append(exits, code)
        /\ files' = IF wrote
                    THEN WriteFile(files, Join(children[2].cwd, "model_keras.json"),
                                   "keras_new")
                    ELSE files
        /\ IF CheckCall(code)
           THEN /\ pc' = "converted"
                /\ UNCHANGED <<raised, stderr>>
           ELSE Abort(Exc("CalledProcessError"))
    /\ UNCHANGED <<i_len, i_sr, t_len, t_sr, model_type, skip, epochs, environ,
                   dirs, initial, helper, stdout, fn, cfg, sc, model_dir, best,
                   children>>

AidaxName == "model-lstm.aidax"
NamNameJson == "model-lstm.json"
NamName == "model-lstm.nam"

\* os.makedirs(out_dir, exist_ok=True)
MakeDirs(ds, dir) == ds \cup {dir}

\* shutil.copyfile(src, dst), src a file that exists
MoveFile(fs, src, dst) == WriteFile({f \in fs : f[1] # src}, dst, Read(fs, src))
CopyFile(fs, src, dst) == WriteFile(fs, dst, Read(fs, src))

\* The two copies of export_aidax, in their order: the files afterwards and
\* the exception raised, if any.
ExportCopiesNamFirst(fs, keras_json, aidax, best_json, nam) ==
    IF ~Exists(fs, best_json)
    THEN [files |-> fs, raised |-> "FileNotFoundError: model_best.json"]
    ELSE LET fs1 == CopyFile(fs, best_json, nam)
         IN  IF ~Exists(fs1, keras_json)
             THEN [files |-> fs1, raised |-> "FileNotFoundError: model_keras.json"]
             ELSE [files |-> CopyFile(fs1, keras_json, aidax), raised |-> "none"]
ExportCopies(fs, keras_json, aidax, best_json, nam) ==
    IF ~Exists(fs, keras_json)
    THEN [files |-> fs, raised |-> "FileNotFoundError: model_keras.json"]
    ELSE LET fs1 == CopyFile(fs, keras_json, aidax)
         IN  IF ~Exists(fs1, best_json)
             THEN [files |-> fs1, raised |-> "FileNotFoundError: model_best.json"]
             ELSE [files |-> CopyFile(fs1, best_json, nam), raised |-> "none"]

\* export_aidax after the converter: makedirs, the two copies, the message
ExportCopy ==
    /\ pc = "converted"
    /\ dirs' = MakeDirs(dirs, out_dir)
    /\ LET r == ExportCopies(files, Join(trainer_dir, "model_keras.json"),
                             Join(out_dir, AidaxName), best,
                             Join(out_dir, NamName))
       IN  /\ files' = r.files
           /\ IF r.raised = "none"
              THEN /\ stdout' = Append(stdout, "wrote")
                   /\ pc' = "done"
                   /\ UNCHANGED <<raised, stderr>>
              ELSE /\ Abort(Exc(r.raised))
                   /\ UNCHANGED stdout
    /\ UNCHANGED <<i_len, i_sr, t_len, t_sr, model_type, skip, epochs, environ,
                   initial, helper, fn, cfg, sc, model_dir, best, children,
                   exits>>

(***************************************************************************)
(* The process.                                                            *)
(***************************************************************************)
Terminated == pc \in {"done", "aborted"}

\* The exit status: 0 when main returns, the status a SystemExit carries
\* (0 for sys.exit(), n for sys.exit(n), 1 for sys.exit(text)), and 1 when
\* any other exception reaches the top level.
ProcessExitZero(exc) == 0
ProcessExit(exc) ==
    IF exc.type = "none" THEN 0
    ELSE IF exc.type = "SystemExit" THEN exc.code
    ELSE 1

exit_code == ProcessExit(raised)

InitLocals ==
    /\ initial = [environ |-> environ, files |-> files, dirs |-> dirs]
    /\ pc = "start"
    /\ raised = NoExc
    /\ helper = NotCalled
    /\ stderr = <<>>
    /\ stdout = <<>>
    /\ fn = ""
    /\ cfg = ""
    /\ sc = 0
    /\ model_dir = <<>>
    /\ best = <<>>
    /\ children = <<>>
    /\ exits = <<>>

\* The output directory before the run: absent, empty, or holding files.
OutDirStates ==
    { [dirs |-> {}, files |-> {}],
      [dirs |-> {out_dir}, files |-> {}],
      [dirs |-> {out_dir}, files |-> {<<Join(out_dir, "notes.txt"), "notes">>}],
      [dirs |-> {out_dir},
       files |-> {<<Join(out_dir, "notes.txt"), "notes">>,
                  <<Join(out_dir, "model-lstm.aidax"), "aidax_old">>,
                  <<Join(out_dir, "model-lstm.nam"), "nam_old">>}] }

\* model_keras.json left in the trainer checkout by an earlier run, or not
KerasStates == {{}, {<<Join(trainer_dir, "model_keras.json"), "keras_old">>}}

Environs ==
    { e \in [EnvVars -> {Unset, "0", "3", ":4096:2", "/usr/bin"}] :
        /\ e["TF_CPP_MIN_LOG_LEVEL"] \in {Unset, "0", "3"}
        /\ e["CUBLAS_WORKSPACE_CONFIG"] \in {Unset, ":4096:2"}
        /\ e["PATH"] = "/usr/bin" }

\* Every command line, environment and file system, with four pairs of
\* audio files: alike, too long, and two with differing rates.
Init ==
    /\ i_len = 1 /\ i_sr = 1
    /\ t_len \in {1, 4} /\ t_sr \in {1, 2}
    /\ model_type \in ModelTypes
    /\ skip \in BOOLEAN
    /\ epochs \in EpochChoices
    /\ environ \in Environs
    /\ \E o \in OutDirStates, k \in KerasStates :
        /\ files = o.files \cup k
        /\ dirs = o.dirs \cup {trainer_dir}
    /\ InitLocals

\* Every pair of audio files within the bounds, with the default command
\* line and a fresh checkout.
InitAudio ==
    /\ i_len \in 0..MaxLen /\ i_sr \in 1..MaxRate
    /\ t_len \in 0..MaxLen /\ t_sr \in 1..MaxRate
    /\ model_type = DefaultModelType
    /\ skip = FALSE
    /\ epochs = DefaultEpochs
    /\ environ = [v \in EnvVars |-> IF v = "PATH" THEN "/usr/bin" ELSE Unset]
    /\ files = {}
    /\ dirs = {trainer_dir}
    /\ InitLocals

Next ==
    \/ PrepareData
    \/ TrainSpawn
    \/ TrainerExit
    \/ ExportSpawn
    \/ ConverterExit
    \/ ExportCopy

Spec == Init /\ [][Next]_vars

SpecAudio == InitAudio /\ [][Next]_vars

(***************************************************************************)
(* Properties.                                                             *)
(***************************************************************************)
\* The output directory is as it was at start-up: not created, nothing
\* written into it.
OutUntouched ==
    /\ (out_dir \in dirs) = (out_dir \in initial.dirs)
    /\ DirFiles(files, out_dir) = DirFiles(initial.files, out_dir)

\* The configuration table, the skip flag and the epoch count as the command
\* line of the trainer must carry them.
ExpectedCfg ==
    CASE model_type = "Lightest" -> "LSTM-8"
      [] model_type = "Light"    -> "LSTM-12"
      [] model_type = "Standard" -> "LSTM-16"
      [] model_type = "Heavy"    -> "LSTM-20"

ExpectedSc == IF skip THEN "1" ELSE "0"

ExpectedEps == CASE epochs = 3 -> "3" [] epochs = 200 -> "200"

ExpectedModelDir ==
    <<"trainer", "Results", "amp_" \o ExpectedCfg \o "-" \o ExpectedSc>>

BestPath == ExpectedModelDir \o <<"model_best.json">>
KerasPath == <<"trainer", "model_keras.json">>
OutAidax == <<"res", "model-lstm.aidax">>
OutNam == <<"res", "model-lstm.nam">>

\* The two sample rates are equal and the durations (samples / rate, as
\* exact fractions) differ by less than 3 seconds.
ShortDiff ==
    /\ i_sr = t_sr
    /\ t_len - i_len < 3 * i_sr
    /\ i_len - t_len < 3 * i_sr

\* The two sample rates are equal and the durations differ by 3 seconds or
\* more.
LongDiff ==
    /\ i_sr = t_sr
    /\ (t_len - i_len >= 3 * i_sr \/ i_len - t_len >= 3 * i_sr)

PrepareFailed ==
    /\ pc = "aborted"
    /\ raised.type \in {"AssertionError: Input/Target lengths differ too much",
                   "AssertionError: Sample rates differ"}
    /\ children = <<>>
    /\ fn = ""

\* prepare_data returned "amp", a helper that failed left a warning on the
\* error stream, and the trainer, once started, is given the tag "amp".
PrepareSucceeded ==
    /\ fn = "amp"
    /\ helper.type # "not_called"
    /\ helper.type # "ok" =>
          /\ Len(stderr) >= 1
          /\ stderr[1] = "[warn] prep helpers missing/failed (" \o helper.text
                            \o "); continuing with raw wavs."
    /\ pc = "aborted" => Len(children) >= 1
    /\ Len(children) >= 1 => children[1].cmd[6] = "amp"

\* C1: once the trainer child has exited non-zero, the converter child is
\* never started, the output directory is neither created nor written to,
\* and the process has ended with a non-zero exit status.
C1_TrainerFailureStopsRun ==
    (Len(exits) >= 1 /\ exits[1] # 0) =>
        /\ pc = "aborted"
        /\ exit_code # 0
        /\ Len(children) = 1
        /\ children[1].cmd[2] = "dist_model_recnet.py"
        /\ OutUntouched

C1_Witness ==
    /\ exits = <<1>>
    /\ pc = "aborted"
    /\ raised.type = "CalledProcessError"

\* C2: with differing sample rates, whatever the lengths, prepare_data fails
\* with an assertion error, no child process is started and the optional
\* helper is not called.
C2_RateMismatchFails ==
    (pc # "start" /\ i_sr # t_sr) =>
        /\ PrepareFailed
        /\ helper.type = "not_called"

C2_Witness ==
    /\ i_sr # t_sr
    /\ pc = "aborted"
    /\ raised.type = "AssertionError: Sample rates differ"

\* C3 as stated: with equal rates and durations less than 3 seconds apart,
\* prepare_data returns "amp" whatever the helper does, a failing helper
\* leaving a warning, and the run goes on to training with that tag.
C3_AnyHelperOutcome ==
    (pc # "start" /\ ShortDiff) => PrepareSucceeded

\* C3, amended: the same, for a helper that returns or raises an exception
\* derived from Exception (a missing module included); an exception that
\* derives from BaseException only, such as SystemExit, is not caught.
C3_HelperExceptionCaught ==
    (pc # "start" /\ ShortDiff /\ helper.type # "SystemExit") => PrepareSucceeded

C3_Witness ==
    /\ ShortDiff
    /\ i_len # t_len
    /\ helper.type = "RuntimeError"
    /\ stderr = <<"[warn] prep helpers missing/failed (prep failed); continuing with raw wavs.">>
    /\ pc = "training"
    /\ children[1].cmd[6] = "amp"

\* C4: with equal rates and durations 3 seconds or more apart, exactly 3
\* seconds included, prepare_data fails and no child process is started.
C4_LongDiffFails ==
    (pc # "start" /\ LongDiff) => PrepareFailed

\* C5 as stated: after a successful run the output directory holds exactly
\* the two files model-lstm.aidax and model-lstm.nam, whatever it held
\* before.
C5_ExactlyTwoFiles ==
    pc = "done" =>
        ListDir(files, out_dir) = {"model-lstm.aidax", "model-lstm.nam"}

\* C5, amended: after a successful run the output directory holds
\* model-lstm.aidax and model-lstm.nam and, unchanged, every other file it
\* held before; exactly the two when it was absent or held no other file.
C5_TwoFilesAdded ==
    pc = "done" =>
        /\ out_dir \in dirs
        /\ ListDir(files, out_dir) =
              {"model-lstm.aidax", "model-lstm.nam"}
                  \cup ListDir(initial.files, out_dir)
        /\ \A f \in DirFiles(initial.files, out_dir) :
              Last(f[1]) \notin {"model-lstm.aidax", "model-lstm.nam"} => f \in files
        /\ ListDir(initial.files, out_dir) \subseteq
                  {"model-lstm.aidax", "model-lstm.nam"}
              => ListDir(files, out_dir) = {"model-lstm.aidax", "model-lstm.nam"}

C5_Witness ==
    /\ pc = "done"
    /\ exits = <<0, 0>>
    /\ "notes.txt" \in ListDir(initial.files, out_dir)
    /\ ListDir(files, out_dir) = {"model-lstm.aidax", "model-lstm.nam", "notes.txt"}

\* The two files export_aidax copies from.
SourceFiles == {f \in files : f[1] \in {BestPath, KerasPath}}

C6_Copies ==
    pc = "done" =>
        /\ Exists(files, BestPath) /\ Exists(files, OutNam)
        /\ Exists(files, KerasPath) /\ Exists(files, OutAidax)
        /\ Read(files, OutNam) = Read(files, BestPath)
        /\ Read(files, OutAidax) = Read(files, KerasPath)

\* C6: after a successful export model-lstm.nam holds the data of
\* model_best.json and model-lstm.aidax the data of model_keras.json, and no
\* step of the wrapper itself (every step but the two children running)
\* changes either source file.
C6_ByteIdenticalCopies ==
    /\ []C6_Copies
    /\ [][pc \notin {"training", "converting"} => SourceFiles' = SourceFiles]_vars

C6_Witness ==
    /\ pc = "done"
    /\ Read(files, OutNam) = "best_new"
    /\ Read(files, BestPath) = "best_new"
    /\ Read(files, OutAidax) = "keras_new"
    /\ Read(files, KerasPath) = "keras_new"

\* C7: the trainer child is started in the trainer directory with exactly
\* python3 dist_model_recnet.py -l <config> -fn amp -sc <0|1> -eps <epochs>,
\* <config> from the fixed table, and train returns
\* <trainer>/Results/amp_<config>-<0|1> built from the same two values.
C7_TrainerCommand ==
    /\ Len(children) >= 1 =>
          /\ children[1].cmd = <<"python3", "dist_model_recnet.py",
                                 "-l", ExpectedCfg, "-fn", "amp",
                                 "-sc", ExpectedSc, "-eps", ExpectedEps>>
          /\ children[1].cwd = <<"trainer">>
    /\ pc \in {"trained", "converting", "converted", "done"} =>
          /\ model_dir = ExpectedModelDir
          /\ model_dir = <<"trainer", "Results",
                           "amp_" \o children[1].cmd[4] \o "-" \o children[1].cmd[8]>>

C7_Witness ==
    /\ pc = "trained"
    /\ model_type = "Heavy"
    /\ skip
    /\ children[1].cmd[4] = "LSTM-20"
    /\ children[1].cmd[8] = "1"
    /\ model_dir = <<"trainer", "Results", "amp_LSTM-20-1">>

Order ==
    <<"start", "prepared", "training", "trained", "converting", "converted", "done">>

Rank(p) == CHOOSE i \in 1..Len(Order) : Order[i] = p

C8_Inv ==
    /\ Len(children) <= 2
    /\ Len(children) - Len(exits) = IF pc \in {"training", "converting"} THEN 1 ELSE 0
    /\ Len(children) >= 1 =>
          /\ children[1].cmd[2] = "dist_model_recnet.py"
          /\ fn = "amp"
    /\ Len(children) >= 2 =>
          /\ children[2].cmd[2] = "modelToKeras.py"
          /\ Len(exits) >= 1
          /\ exits[1] = 0
    /\ pc \in {"start", "prepared"} => children = <<>>
    /\ pc \in {"training", "trained"} => Len(children) = 1
    /\ pc \in {"converting", "converted", "done"} => Len(children) = 2

C8_Step ==
    /\ pc \notin {"done", "aborted"}
    /\ pc' = "aborted" \/ Rank(pc') = Rank(pc) + 1
    /\ pc' = "aborted" => children' = children

\* C8: the run passes through preparing, training and exporting in that
\* order, one step at a time, each step going to the next or ending the
\* process: the trainer is started at most once and only after prepare_data
\* returned, the converter at most once and only after the trainer exited 0,
\* at most one child is alive, and nothing happens after a failure.
C8_LinearOrder ==
    /\ []C8_Inv
    /\ [][C8_Step]_vars

C8_Witness ==
    /\ pc = "done"
    /\ Len(children) = 2
    /\ exits = <<0, 0>>

C9_ConverterFailure ==
    (Len(exits) = 2 /\ exits[2] # 0) =>
        /\ pc = "aborted"
        /\ exit_code # 0
        /\ OutUntouched

C9_AidaxLeft ==
    /\ pc = "aborted"
    /\ exit_code # 0
    /\ out_dir \in dirs
    /\ Exists(files, OutAidax)
    /\ Exists(files, KerasPath)
    /\ Read(files, OutAidax) = Read(files, KerasPath)

\* C9 as stated: a converter that exits non-zero leaves the output directory
\* as it was, and an export that fails on the copy of model_best.json ends
\* non-zero with the output directory and model-lstm.aidax in place and no
\* model-lstm.nam in it.
C9_NoNamAfterFailure ==
    /\ C9_ConverterFailure
    /\ raised.type = "FileNotFoundError: model_best.json" =>
          /\ C9_AidaxLeft
          /\ ~Exists(files, OutNam)

\* C9, amended: the same, with model-lstm.nam not written rather than
\* absent: the output directory holds one only if it held it before the
\* run, with the data it had; every other file but model-lstm.aidax is as
\* it was too.
C9_NoCleanup ==
    /\ C9_ConverterFailure
    /\ raised.type = "FileNotFoundError: model_best.json" =>
          /\ C9_AidaxLeft
          /\ {f \in DirFiles(files, out_dir) : f[1] # OutAidax}
               = {f \in DirFiles(initial.files, out_dir) : f[1] # OutAidax}

C9_Witness ==
    /\ raised.type = "FileNotFoundError: model_best.json"
    /\ exits = <<0, 0>>
    /\ out_dir \notin initial.dirs
    /\ out_dir \in dirs
    /\ ListDir(files, out_dir) = {"model-lstm.aidax"}

\* C10: the wrapper's own environment never changes; the trainer child gets
\* it with TF_CPP_MIN_LOG_LEVEL=3 and CUBLAS_WORKSPACE_CONFIG=:4096:2 forced
\* and every other variable as it is; the converter child gets it as it is.
C10_EnvironmentScoped ==
    /\ environ = initial.environ
    /\ Len(children) >= 1 =>
          /\ children[1].env["TF_CPP_MIN_LOG_LEVEL"] = "3"
          /\ children[1].env["CUBLAS_WORKSPACE_CONFIG"] = ":4096:2"
          /\ \A v \in EnvVars \ {"TF_CPP_MIN_LOG_LEVEL", "CUBLAS_WORKSPACE_CONFIG"} :
                children[1].env[v] = initial.environ[v]
    /\ Len(children) >= 2 => children[2].env = initial.environ

C10_Witness ==
    /\ Len(children) = 2
    /\ initial.environ["TF_CPP_MIN_LOG_LEVEL"] = Unset
    /\ initial.environ["CUBLAS_WORKSPACE_CONFIG"] = Unset
    /\ children[1].env["TF_CPP_MIN_LOG_LEVEL"] = "3"
    /\ children[2].env["TF_CPP_MIN_LOG_LEVEL"] = Unset
    /\ children[2].env["CUBLAS_WORKSPACE_CONFIG"] = Unset

====
